---- MODULE Spec2Model ----
(***************************************************************************)
(* PyCronVideoAlarm: the alarm scheduling and job identity subsystem.      *)
(*                                                                         *)
(* The three platform scheduler adapters (cron, launchd, Task Scheduler),  *)
(* the process the native scheduler starts when an alarm fires, and the    *)
(* self-deletion of one-time jobs.                                         *)
(*                                                                         *)
(* Strings are sequences of tokens. A token is one character of a          *)
(* user-chosen text (a sequence name, a digit, a separator) or one fixed   *)
(* piece of text the program writes (a flag, the marker, a path).          *)
(***************************************************************************)
EXTENDS Integers, Sequences, FiniteSets, TLC

VARIABLES
    adapter,    \* which platform adapter this host runs: "cron", "launchd", "win"
    store,      \* the persisted native store, in scan order
    ui,         \* the adapter object of the managing process: [ok, mem]
    fp,         \* the process started by the native scheduler (main.py)
    clock,      \* wall clock: an index into the moments of the alarm date
    fired,      \* the clock value at which the native scheduler last fired a job
    nextId,     \* uuid4 source: the number of the next identifier
    rt,         \* an add_alarm / list_alarms round trip: its arguments and results
    hist        \* history: the records the native scheduler has fired, in order

vars == <<adapter, store, ui, fp, clock, fired, nextId, rt, hist>>

------------------------------------------------------------------------------
(* Bounds of the model *)

MaxAdds == 2        \* add_alarm calls in one behaviour (each mints a uuid)
MaxClock == 2       \* how far the wall clock advances

------------------------------------------------------------------------------
(* Text helpers: Python str operations on token sequences *)

DigitChars == <<"0", "1", "2", "3", "4", "5", "6", "7", "8", "9">>

IsDigit(c) == \E i \in 1..10 : DigitChars[i] = c

DigitVal(c) == (CHOOSE i \in 1..10 : DigitChars[i] = c) - 1

\* '%02d' and strftime's %H, %M
Pad2(n) == <<DigitChars[(n \div 10) + 1], DigitChars[(n % 10) + 1]>>

\* str(n) for 0 <= n <= 99
Str(n) == IF n < 10 THEN <<DigitChars[n + 1]>> ELSE Pad2(n)

\* int(s): the value, or -1 where Python raises ValueError
RECURSIVE IntAcc(_, _)
IntAcc(s, acc) ==
    IF s = <<>> THEN acc
    ELSE IF ~IsDigit(Head(s)) THEN -1
    ELSE IntAcc(Tail(s), acc * 10 + DigitVal(Head(s)))

ParseInt(s) == IF s = <<>> THEN -1 ELSE IntAcc(s, 0)

\* needle in hay
Contains(hay, needle) ==
    \E i \in 0..(Len(hay) - Len(needle)) :
        SubSeq(hay, i + 1, i + Len(needle)) = needle

\* s.startswith(p)
StartsWith(s, p) == Len(s) >= Len(p) /\ SubSeq(s, 1, Len(p)) = p

\* s.split(sep) for a one-token separator
RECURSIVE SplitAcc(_, _, _, _)
SplitAcc(s, sep, cur, acc) ==
    IF s = <<>> THEN Append(acc, cur)
    ELSE IF Head(s) = sep THEN SplitAcc(Tail(s), sep, <<>>, Append(acc, cur))
    ELSE SplitAcc(Tail(s), sep, Append(cur, Head(s)), acc)

Split(s, sep) == SplitAcc(s, sep, <<>>, <<>>)

\* sep.join(parts)
RECURSIVE Join(_, _)
Join(parts, sep) ==
    IF parts = <<>> THEN <<>>
    ELSE IF Len(parts) = 1 THEN parts[1]
    ELSE parts[1] \o sep \o Join(Tail(parts), sep)

\* s.replace(a, b) for one-token a and b
Replace(s, a, b) == [i \in 1..Len(s) |-> IF s[i] = a THEN b ELSE s[i]]

\* s.strip() of blanks
RECURSIVE LStrip(_)
LStrip(s) == IF s # <<>> /\ Head(s) = " " THEN LStrip(Tail(s)) ELSE s

RECURSIVE RStrip(_)
RStrip(s) ==
    IF s # <<>> /\ s[Len(s)] = " " THEN RStrip(SubSeq(s, 1, Len(s) - 1)) ELSE s

Strip(s) == RStrip(LStrip(s))

\* shlex.split(s): words separated by blanks, double quotes grouping and dropped.
\* [ok |-> FALSE] where shlex raises ValueError (no closing quotation).
RECURSIVE ShlexAcc(_, _, _, _, _)
ShlexAcc(s, inq, has, cur, acc) ==
    IF s = <<>> THEN
        IF inq THEN [ok |-> FALSE, words |-> <<>>]
        ELSE [ok |-> TRUE, words |-> IF has THEN Append(acc, cur) ELSE acc]
    ELSE IF Head(s) = "\"" THEN ShlexAcc(Tail(s), ~inq, TRUE, cur, acc)
    ELSE IF Head(s) = " " /\ ~inq THEN
        ShlexAcc(Tail(s), inq, FALSE, <<>>, IF has THEN Append(acc, cur) ELSE acc)
    ELSE ShlexAcc(Tail(s), inq, TRUE, Append(cur, Head(s)), acc)

ShlexSplit(s) == ShlexAcc(s, FALSE, FALSE, <<>>, <<>>)

\* list.index(x): the first position of x, 0 where Python raises ValueError
IndexOf(seq, x) ==
    IF \E i \in 1..Len(seq) : seq[i] = x
    THEN CHOOSE i \in 1..Len(seq) : seq[i] = x /\ \A j \in 1..(i - 1) : seq[j] # x
    ELSE 0

\* The sequence without its i-th element
RemoveAt(seq, i) == SubSeq(seq, 1, i - 1) \o SubSeq(seq, i + 1, Len(seq))

\* sorted(set(values)) of a sequence of numbers
RECURSIVE SortedOf(_)
SortedOf(S) ==
    IF S = {} THEN <<>>
    ELSE LET m == CHOOSE x \in S : \A y \in S : x <= y
         IN <<m>> \o SortedOf(S \ {m})

Range(seq) == {seq[i] : i \in 1..Len(seq)}

------------------------------------------------------------------------------
(* Values the adapters work on *)

\* Sequence names the user has chosen; the first is a substring of the second
SeqNames == {<<"a">>, <<"a", "b">>}

\* The moments of the alarm date the clock passes through, as [h, m]
Moments == <<[h |-> 7, m |-> 30], [h |-> 22, m |-> 5]>>

NMoments == Len(Moments)

MomentOf(c) == Moments[((c - 1) % NMoments) + 1]

YearOf(c) == ((c - 1) \div NMoments) + 1

\* The calendar date of the alarms
AlarmDate == [month |-> 11, day |-> 3]

WeekDays == <<"MON", "TUE", "WED", "THU", "FRI", "SAT", "SUN">>

\* uuid.uuid4() as text
UUID(n) == <<"u1", "u2", "u3", "u4", "u5", "u6", "u7", "u8">>[n]

\* alarm_time.strftime('%H:%M')
StrfHM(t) == Pad2(t.hour) \o <<":">> \o Pad2(t.minute)

\* Python values that are a list of strings or one string
PyList(v) == [type |-> "list", v |-> v]
PyStr(v) == [type |-> "str", v |-> v]

NoText == <<>>

------------------------------------------------------------------------------
(* Cron adapter: platforms/linux/scheduler.py *)

MARKER == "#PyCronVideoAlarm"

\* A time field of a cron job that is '*'
Star == -1

\* str() of a time field of a cron job
SliceStr(v) == IF v = Star THEN <<"*">> ELSE Str(v)

\* str.zfill(2)
ZFill2(s) == IF Len(s) < 2 THEN <<"0">> \o s ELSE s

\* str(job.dow): '*' or the day numbers, sorted, joined with commas
DowStr(dow) ==
    IF dow = <<>> THEN <<"*">>
    ELSE Join([i \in 1..Len(dow) |-> Str(dow[i])], <<",">>)

\* day_map of add_alarm, with its default 1
CronDayNumber(d) ==
    CASE d = "MON" -> 1 [] d = "TUE" -> 2 [] d = "WED" -> 3 [] d = "THU" -> 4
      [] d = "FRI" -> 5 [] d = "SAT" -> 6 [] d = "SUN" -> 0 [] OTHER -> 1

\* day_rev_map.get(d.strip(), d) of list_alarms and remove_alarm
CronDayName(d) ==
    LET k == Strip(d) IN
    CASE k = <<"1">> -> <<"MON">> [] k = <<"2">> -> <<"TUE">> [] k = <<"3">> -> <<"WED">>
      [] k = <<"4">> -> <<"THU">> [] k = <<"5">> -> <<"FRI">> [] k = <<"6">> -> <<"SAT">>
      [] k = <<"0">> -> <<"SUN">> [] OTHER -> d

\* The command line add_alarm writes up to the sequence name
CronBaseCmd(sequence_name) ==
    <<"DISPLAY=:0", " ", "XDG_RUNTIME_DIR=/run/user/uid", " ", "XDG_CURRENT_DESKTOP=KDE", " ",
      "\"", "python", "\"", " ", "\"", "main.py", "\"", " ",
      "--execute-sequence", " ", "\"">> \o sequence_name \o <<"\"">>

\* The flags add_alarm appends for a one-time alarm
OneTimeFlags(job_id, time_str) ==
    <<" ", "--delete-after", " ", "--job-id", " ", job_id, " ", "--scheduled-time", " ">>
        \o time_str

\* An add_alarm that tags every job with the bare marker
CronComment_Bare(one_time, job_id) == <<MARKER>>

\* The comment add_alarm tags the job with
CronComment(one_time, job_id) ==
    IF one_time THEN <<MARKER, ":", job_id>> ELSE <<MARKER>>

\* job.dow after add_alarm has set the schedule
CronDow(days, one_time) ==
    IF one_time THEN <<>>
    ELSE IF Len(days) = 7 \/ days = <<>> THEN <<>>
    ELSE SortedOf({CronDayNumber(days[i]) : i \in 1..Len(days)})

\* The job add_alarm creates with cron.new and the setters that follow
CronNewJob(alarm_time, sequence_name, days, one_time, job_id) ==
    [comment |-> CronComment(one_time, job_id),
     command |-> CronBaseCmd(sequence_name)
                    \o (IF one_time THEN OneTimeFlags(job_id, StrfHM(alarm_time)) ELSE <<>>),
     minute  |-> alarm_time.minute,
     hour    |-> alarm_time.hour,
     day     |-> IF one_time THEN alarm_time.day ELSE Star,
     month   |-> IF one_time THEN alarm_time.month ELSE Star,
     dow     |-> CronDow(days, one_time),
     enabled |-> TRUE]

\* An ownership test that takes every comment starting with the marker
CronIsOurJob_AnyPrefix(job) ==
    /\ job.comment # <<>>
    /\ StartsWith(job.comment, <<MARKER>>)

\* The ownership test of list_alarms, remove_alarm and the time-based self-deletion
CronIsOurJob(job) ==
    /\ job.comment # <<>>
    /\ \/ job.comment = <<MARKER>>
       \/ StartsWith(job.comment, <<MARKER, ":">>)

\* The days list_alarms and remove_alarm read off a job, as a list of names
CronJobDays(job) ==
    IF Contains(job.command, <<" ", "--delete-after">>) THEN <<"Once">>
    ELSE IF DowStr(job.dow) = <<"*">> THEN <<"Daily">>
    ELSE LET parts == Split(DowStr(job.dow), ",")
         IN [i \in 1..Len(parts) |-> CronDayName(parts[i])[1]]

\* The body of list_alarms's try block for one job: [ok, entry]; ok is FALSE
\* where the block raises and the job is skipped
CronParseJob(job) ==
    LET sp == ShlexSplit(job.command)
        idx == IF sp.ok THEN IndexOf(sp.words, <<"--execute-sequence">>) ELSE 0
    IN IF ~sp.ok \/ idx = 0 \/ idx + 1 > Len(sp.words)
       THEN [ok |-> FALSE]
       ELSE [ok |-> TRUE,
             entry |-> [time     |-> SliceStr(job.hour) \o <<":">> \o ZFill2(SliceStr(job.minute)),
                        sequence |-> sp.words[idx + 1],
                        days     |-> PyList(CronJobDays(job)),
                        enabled  |-> job.enabled]]

\* A list_alarms that stops after the first job it returns an entry for
CronListed_FirstOnly(cron) ==
    LET all == SelectSeq([i \in 1..Len(cron) |-> i],
                         LAMBDA i : CronIsOurJob(cron[i]) /\ CronParseJob(cron[i]).ok)
    IN IF all = <<>> THEN <<>> ELSE <<all[1]>>

\* The positions in the crontab of the jobs list_alarms returns an entry for
CronListed(cron) ==
    SelectSeq([i \in 1..Len(cron) |-> i],
              LAMBDA i : CronIsOurJob(cron[i]) /\ CronParseJob(cron[i]).ok)

\* list_alarms on an in-memory crontab
CronList(cron) ==
    LET at == CronListed(cron)
    IN [entries |-> [k \in 1..Len(at) |-> CronParseJob(cron[at[k]]).entry],
        from    |-> [k \in 1..Len(at) |-> cron[at[k]]]]

\* Whether remove_alarm takes this job for (sequence_name, hour, minute, days_str)
CronRemoveMatch(job, sequence_name, hour, minute, days_str) ==
    /\ CronIsOurJob(job)
    /\ job.hour = hour /\ job.minute = minute
    /\ Contains(job.command, sequence_name)
    /\ days_str # <<>> =>
         Join([i \in 1..Len(CronJobDays(job)) |-> <<CronJobDays(job)[i]>>], <<",", " ">>)
            = days_str

\* remove_alarm on an in-memory crontab: the position of the job removed, 0 for
\* none, -1 where the time cannot be parsed (the outer except)
CronRemoveAt(cron, sequence_name, time_str, days_str) ==
    LET parts == Split(time_str, ":")
        hour == IF Len(parts) = 2 THEN ParseInt(parts[1]) ELSE -1
        minute == IF Len(parts) = 2 THEN ParseInt(parts[2]) ELSE -1
        hits == {i \in 1..Len(cron) :
                    CronRemoveMatch(cron[i], sequence_name, hour, minute, days_str)}
    IN IF hour < 0 \/ minute < 0 THEN -1
       ELSE IF hits = {} THEN 0
       ELSE CHOOSE i \in hits : \A j \in hits : i <= j

------------------------------------------------------------------------------
(* Launchd adapter: platforms/macos/scheduler.py *)

LABEL_PREFIX == "com.juke32.pycronvideoalarm"

\* A key a plist dictionary does not have
Absent == -1

\* _plist_path(job_id), without the directory
PlistFile(job_id) == <<LABEL_PREFIX, ".", job_id, ".plist">>

\* glob's pattern LABEL_PREFIX.*.plist
PlistGlob(file) ==
    /\ Len(file) >= 4
    /\ file[1] = LABEL_PREFIX /\ file[2] = "."
    /\ file[Len(file)] = ".plist"

\* _build_cmd: ProgramArguments, a list of words
LaunchdBuildCmd(sequence_name, job_id, one_time, alarm_time) ==
    <<(<<"python">>), (<<"main.py">>), (<<"--execute-sequence">>), sequence_name>>
      \o (IF one_time
          THEN <<(<<"--delete-after">>), (<<"--job-id">>), (<<job_id>>),
                 (<<"--scheduled-time">>), StrfHM(alarm_time)>>
          ELSE <<>>)

CalDict(month, day, weekday, hour, minute) ==
    [Month |-> month, Day |-> day, Weekday |-> weekday, Hour |-> hour, Minute |-> minute]

\* _build_calendar_interval: one dict, or a list with a dict per weekday
LaunchdBuildCalendar(alarm_time, days, one_time) ==
    IF one_time THEN
        [islist |-> FALSE,
         items |-> <<CalDict(alarm_time.month, alarm_time.day, Absent,
                             alarm_time.hour, alarm_time.minute)>>]
    ELSE IF days = <<>> \/ Len(days) = 7 THEN
        [islist |-> FALSE,
         items |-> <<CalDict(Absent, Absent, Absent, alarm_time.hour, alarm_time.minute)>>]
    ELSE
        [islist |-> TRUE,
         items |-> [i \in 1..Len(days) |->
                       CalDict(Absent, Absent, CronDayNumber(days[i]),
                               alarm_time.hour, alarm_time.minute)]]

\* The plist add_alarm writes; loaded is whether launchd has the job registered
LaunchdNewJob(alarm_time, sequence_name, days, one_time, job_id, loaded) ==
    [file   |-> PlistFile(job_id),
     valid  |-> TRUE,
     label  |-> <<LABEL_PREFIX, ".", job_id>>,
     args   |-> LaunchdBuildCmd(sequence_name, job_id, one_time, alarm_time),
     cal    |-> LaunchdBuildCalendar(alarm_time, days, one_time),
     env    |-> [PCVA_SEQUENCE |-> sequence_name,
                 PCVA_ONE_TIME |-> IF one_time THEN "1" ELSE "0",
                 PCVA_DAYS     |-> IF days # <<>>
                                   THEN Join([i \in 1..Len(days) |-> <<days[i]>>], <<",">>)
                                   ELSE <<"daily">>,
                 PCVA_JOB_ID   |-> job_id],
     loaded |-> loaded]

\* The days list_alarms reads off a plist
LaunchdJobDays(job) ==
    IF job.env.PCVA_ONE_TIME = "1" THEN <<"Once">>
    ELSE IF job.env.PCVA_DAYS = <<"daily">> THEN <<"Daily">>
    ELSE LET parts == Split(job.env.PCVA_DAYS, ",")
             kept == SelectSeq(parts, LAMBDA d : Strip(d) # <<>>)
         IN [i \in 1..Len(kept) |-> Strip(kept[i])[1]]

\* The body of list_alarms's try block for one plist file
LaunchdParseJob(job) ==
    IF ~job.valid \/ (job.cal.islist /\ job.cal.items = <<>>)
    THEN [ok |-> FALSE]
    ELSE LET cal == job.cal.items[1]
             hour == IF cal.Hour = Absent THEN 0 ELSE cal.Hour
             minute == IF cal.Minute = Absent THEN 0 ELSE cal.Minute
         IN [ok |-> TRUE,
             entry |-> [time     |-> Str(hour) \o <<":">> \o ZFill2(Str(minute)),
                        sequence |-> job.env.PCVA_SEQUENCE,
                        days     |-> PyList(LaunchdJobDays(job)),
                        enabled  |-> job.loaded]]

\* A list_alarms whose loop ends at the first plist it cannot parse
LaunchdListed_StopAtError(dir) ==
    SelectSeq([i \in 1..Len(dir) |-> i],
              LAMBDA i : \A j \in 1..i : PlistGlob(dir[j].file) => LaunchdParseJob(dir[j]).ok)

LaunchdListed(dir) ==
    SelectSeq([i \in 1..Len(dir) |-> i],
              LAMBDA i : PlistGlob(dir[i].file) /\ LaunchdParseJob(dir[i]).ok)

\* list_alarms over the LaunchAgents directory
LaunchdList(dir) ==
    LET at == LaunchdListed(dir)
    IN [entries |-> [k \in 1..Len(at) |-> LaunchdParseJob(dir[at[k]]).entry],
        from    |-> [k \in 1..Len(at) |-> dir[at[k]]]]

\* The days remove_alarm compares with days_str
LaunchdRemoveDays(job) ==
    IF job.env.PCVA_DAYS = <<"daily">> THEN <<"Daily">>
    ELSE IF job.env.PCVA_ONE_TIME = "1" THEN <<"Once">>
    ELSE LET parts == Split(job.env.PCVA_DAYS, ",")
         IN Join([i \in 1..Len(parts) |-> Strip(parts[i])], <<",", " ">>)

\* Whether remove_alarm takes this plist for (sequence_name, hour, minute, days_str)
LaunchdRemoveMatch(job, sequence_name, hour, minute, days_str) ==
    /\ PlistGlob(job.file)
    /\ job.valid
    /\ job.env.PCVA_SEQUENCE = sequence_name
    /\ ~(job.cal.islist /\ job.cal.items = <<>>)
    /\ job.cal.items[1].Hour = hour /\ job.cal.items[1].Minute = minute
    /\ days_str # <<>> => LaunchdRemoveDays(job) = days_str

\* remove_alarm: the positions it may remove (glob's order is the file system's),
\* {} for not found, {-1} where the time cannot be parsed
LaunchdRemoveAt(dir, sequence_name, time_str, days_str) ==
    LET parts == Split(time_str, ":")
        hour == IF Len(parts) = 2 THEN ParseInt(parts[1]) ELSE -1
        minute == IF Len(parts) = 2 THEN ParseInt(parts[2]) ELSE -1
    IN IF hour < 0 \/ minute < 0 THEN {-1}
       ELSE {i \in 1..Len(dir) :
                LaunchdRemoveMatch(dir[i], sequence_name, hour, minute, days_str)}

------------------------------------------------------------------------------
(* Task Scheduler adapter: platforms/windows/scheduler.py *)

AUTHOR == "PyCronVideoAlarm"

\* day_map of add_alarm, with its default 0
WinDayBit(d) ==
    CASE d = "SUN" -> 1 [] d = "MON" -> 2 [] d = "TUE" -> 4 [] d = "WED" -> 8
      [] d = "THU" -> 16 [] d = "FRI" -> 32 [] d = "SAT" -> 64 [] OTHER -> 0

RECURSIVE SumOf(_)
SumOf(S) == IF S = {} THEN 0 ELSE LET x == CHOOSE y \in S : TRUE IN x + SumOf(S \ {x})

\* mask |= day_map.get(d.upper(), 0) over days; 127 for no days
WinMask(days) ==
    IF days = <<>> THEN 127 ELSE SumOf({WinDayBit(days[i]) : i \in 1..Len(days)} \ {0})

\* mask & bit
HasBit(mask, bit) == (mask \div bit) % 2 = 1

\* The task name add_alarm registers under: <safe name>_HH_MM
WinTaskName(alarm_time, sequence_name) ==
    Replace(sequence_name, " ", "_") \o <<"_">> \o Pad2(alarm_time.hour)
        \o <<"_">> \o Pad2(alarm_time.minute)

\* The task definition add_alarm builds
WinNewTask(alarm_time, sequence_name, days, one_time) ==
    [folder  |-> "app",
     name    |-> WinTaskName(alarm_time, sequence_name),
     author  |-> AUTHOR,
     desc    |-> <<"PyCron", "|">> \o sequence_name \o <<"|">> \o StrfHM(alarm_time),
     trig    |-> IF one_time
                 THEN [type |-> 1, start |-> alarm_time, mask |-> 0]
                 ELSE [type |-> 3, start |-> alarm_time, mask |-> WinMask(days)],
     args    |-> <<"\"", "main.py", "\"", " ", "--execute-sequence", " ", "\"">>
                    \o sequence_name \o <<"\"">>
                    \o (IF one_time THEN <<" ", "--delete-after">> ELSE <<>>),
     enabled |-> TRUE]

\* RegisterTaskDefinition(name, def, TASK_CREATE_OR_UPDATE, ...) in the app folder
WinRegister(tasks, task) ==
    IF \E i \in 1..Len(tasks) : tasks[i].folder = "app" /\ tasks[i].name = task.name
    THEN [i \in 1..Len(tasks) |->
             IF tasks[i].folder = "app" /\ tasks[i].name = task.name THEN task ELSE tasks[i]]
    ELSE Append(tasks, task)

\* name.rsplit('_', 2)
RSplit2(name) ==
    LET us == {i \in 1..Len(name) : name[i] = "_"}
        last == CHOOSE i \in us : \A j \in us : j <= i
        rest == us \ {last}
        prev == CHOOSE i \in rest : \A j \in rest : j <= i
    IN IF us = {} THEN <<name>>
       ELSE IF rest = {} THEN <<SubSeq(name, 1, last - 1), SubSeq(name, last + 1, Len(name))>>
       ELSE <<SubSeq(name, 1, prev - 1), SubSeq(name, prev + 1, last - 1),
              SubSeq(name, last + 1, Len(name))>>

\* days_display of _parse_task's first strategy: one string
WinDaysDisplay(trig) ==
    IF trig.type = 1 THEN <<"Once">>
    ELSE IF trig.type = 3 THEN
        LET d_list == SelectSeq(<<"SUN", "MON", "TUE", "WED", "THU", "FRI", "SAT">>,
                                LAMBDA d : HasBit(trig.mask, WinDayBit(d)))
        IN IF Len(d_list) < 7
           THEN Join([i \in 1..Len(d_list) |-> <<d_list[i]>>], <<",">>)
           ELSE <<"Daily">>
    ELSE <<"?">>

\* _parse_task: [ok, entry]; ok is FALSE where it returns None
WinParseTask(task) ==
    LET parts == Split(task.desc, "|")
        np == RSplit2(task.name)
    IN IF task.desc # <<>> /\ StartsWith(task.desc, <<"PyCron", "|">>) /\ Len(parts) >= 3
       THEN [ok |-> TRUE,
             entry |-> [time |-> parts[3], sequence |-> parts[2],
                        days |-> PyStr(WinDaysDisplay(task.trig)),
                        enabled |-> task.enabled]]
       ELSE IF Contains(task.name, <<"_">>) /\ Len(np) = 3
                /\ ParseInt(np[2]) >= 0 /\ ParseInt(np[3]) >= 0
       THEN [ok |-> TRUE,
             entry |-> [time |-> np[2] \o <<":">> \o np[3], sequence |-> np[1],
                        days |-> PyStr(IF task.trig.type = 1 THEN <<"Once">> ELSE <<"?">>),
                        enabled |-> task.enabled]]
       ELSE [ok |-> FALSE]

\* The order list_alarms and remove_alarm scan in: the app folder, then the root
\* folder, where only tasks of this author are looked at
WinScan(tasks) ==
    SelectSeq([i \in 1..Len(tasks) |-> i], LAMBDA i : tasks[i].folder = "app")
      \o SelectSeq([i \in 1..Len(tasks) |-> i],
                   LAMBDA i : tasks[i].folder = "root" /\ tasks[i].author = AUTHOR)

WinListed(tasks) == SelectSeq(WinScan(tasks), LAMBDA i : WinParseTask(tasks[i]).ok)

\* list_alarms over the Task Scheduler library
WinList(tasks) ==
    LET at == WinListed(tasks)
    IN [entries |-> [k \in 1..Len(at) |-> WinParseTask(tasks[at[k]]).entry],
        from    |-> [k \in 1..Len(at) |-> tasks[at[k]]]]

\* Whether remove_alarm deletes this task: metadata match, else file name match
WinRemoveMatch(task, sequence_name, time_str, hh, mm) ==
    \/ /\ task.desc # <<>>
       /\ StartsWith(task.desc, <<"PyCron", "|">> \o sequence_name \o <<"|">> \o time_str)
    \/ /\ Contains(task.name, <<"_">>)
       /\ Len(RSplit2(task.name)) = 3
       /\ ParseInt(RSplit2(task.name)[2]) = hh /\ ParseInt(RSplit2(task.name)[3]) = mm
       /\ \/ RSplit2(task.name)[1] = sequence_name
          \/ RSplit2(task.name)[1] = Replace(sequence_name, " ", "_")

\* remove_alarm: the position of the task deleted, 0 for none, -1 where the time
\* cannot be parsed (the outer except)
WinRemoveAt(tasks, sequence_name, time_str) ==
    LET parts == Split(time_str, ":")
        hh == IF Len(parts) = 2 THEN ParseInt(parts[1]) ELSE -1
        mm == IF Len(parts) = 2 THEN ParseInt(parts[2]) ELSE -1
        scan == WinScan(tasks)
        hits == {k \in 1..Len(scan) :
                    WinRemoveMatch(tasks[scan[k]], sequence_name, time_str, hh, mm)}
    IN IF hh < 0 \/ mm < 0 THEN -1
       ELSE IF hits = {} THEN 0
       ELSE scan[CHOOSE k \in hits : \A j \in hits : k <= j]

------------------------------------------------------------------------------
(* The fired process: main.py, --execute-sequence branch *)

\* The word after flag among the command line's words, NoText if there is none
ArgAfter(words, flag) ==
    LET i == IndexOf(words, flag)
    IN IF i = 0 \/ i + 1 > Len(words) THEN NoText ELSE words[i + 1]

\* parser.parse_args() on the words of the command line
ParseArgs(words) ==
    [execute_sequence |-> ArgAfter(words, <<"--execute-sequence">>),
     delete_after     |-> IndexOf(words, <<"--delete-after">>) # 0,
     job_id           |-> ArgAfter(words, <<"--job-id">>),
     scheduled_time   |-> ArgAfter(words, <<"--scheduled-time">>)]

\* The words the native scheduler starts the process of a record with
CommandWords(ad, rec) ==
    IF ad = "cron" THEN ShlexSplit(rec.command).words
    ELSE IF ad = "launchd" THEN rec.args
    ELSE ShlexSplit(rec.args).words

\* The sequence documents of the Sequence Store: the action types, in order
SeqDoc(name) ==
    IF name = <<"a">> THEN <<"set_brightness", "play_video">> ELSE <<"play_video">>

\* Where the process goes once the loop over sequence.actions has ended
AfterActions(delete_after) == IF delete_after THEN "delete" ELSE "done"

\* A strategy 1 that takes the first job carrying any job id
CronDeleteById_AnyId(cron, args) ==
    LET base_cmd == <<"--execute-sequence", " ", "\"">> \o args.execute_sequence \o <<"\"">>
        hits == {i \in 1..Len(cron) :
                    /\ StartsWith(cron[i].comment, <<MARKER, ":">>)
                    /\ Contains(cron[i].command, base_cmd)}
    IN IF args.job_id = NoText \/ hits = {} THEN 0
       ELSE CHOOSE i \in hits : \A j \in hits : i <= j

\* Linux self-deletion, strategy 1: the job with this job id's comment whose
\* command holds --execute-sequence "<name>"; 0 for none
CronDeleteById(cron, args) ==
    LET target == <<MARKER, ":">> \o args.job_id
        base_cmd == <<"--execute-sequence", " ", "\"">> \o args.execute_sequence \o <<"\"">>
        hits == {i \in 1..Len(cron) :
                    cron[i].comment = target /\ Contains(cron[i].command, base_cmd)}
    IN IF args.job_id = NoText \/ hits = {} THEN 0
       ELSE CHOOSE i \in hits : \A j \in hits : i <= j

\* Linux self-deletion, strategy 2: the first owned one-time job of the sequence
\* at the scheduled hour and minute; 0 for none
CronDeleteByTime(cron, args) ==
    LET parts == Split(args.scheduled_time, ":")
        target_h == IF Len(parts) = 2 THEN ParseInt(parts[1]) ELSE -1
        target_m == IF Len(parts) = 2 THEN ParseInt(parts[2]) ELSE -1
        hits == {i \in 1..Len(cron) :
                    /\ CronIsOurJob(cron[i])
                    /\ Contains(cron[i].command, args.execute_sequence)
                    /\ Contains(cron[i].command, <<"--delete-after">>)
                    /\ cron[i].hour = target_h /\ cron[i].minute = target_m}
    IN IF args.scheduled_time = NoText \/ target_h < 0 \/ target_m < 0 \/ hits = {} THEN 0
       ELSE CHOOSE i \in hits : \A j \in hits : i <= j

\* Linux self-deletion: the position of the job removed from the crontab read, 0 for none
CronSelfDeleteAt(cron, args) ==
    IF CronDeleteById(cron, args) # 0 THEN CronDeleteById(cron, args)
    ELSE CronDeleteByTime(cron, args)

\* macOS self-deletion: the positions of the plist it may remove: the file named
\* after the job id, else any plist of the sequence marked one-time
LaunchdSelfDeleteAt(dir, args) ==
    LET byid == {i \in 1..Len(dir) :
                    args.job_id # NoText /\ dir[i].file = <<LABEL_PREFIX, ".">> \o args.job_id \o <<".plist">>}
    IN IF byid # {} THEN byid
       ELSE {i \in 1..Len(dir) :
                /\ PlistGlob(dir[i].file) /\ dir[i].valid
                /\ dir[i].env.PCVA_SEQUENCE = args.execute_sequence
                /\ dir[i].env.PCVA_ONE_TIME = "1"}

\* Windows self-deletion: remove_alarm(sequence, "<hour>:<minute:02d>" of now)
WinSelfDeleteAt(tasks, args, now) ==
    LET at == WinRemoveAt(tasks, args.execute_sequence, Str(now.h) \o <<":">> \o Pad2(now.m))
    IN IF at < 0 THEN 0 ELSE at

------------------------------------------------------------------------------
(* Records that other programs keep in the same native store *)

ForeignCron ==
    <<[comment |-> <<>>,
       command |-> <<"backup.sh", " ", "a">>,
       minute |-> 30, hour |-> 7, day |-> Star, month |-> Star, dow |-> <<>>,
       enabled |-> TRUE],
      [comment |-> <<MARKER, "X", ":", "u1">>,
       command |-> CronBaseCmd(<<"a">>) \o OneTimeFlags("u1", <<"0", "7", ":", "3", "0">>),
       minute |-> 30, hour |-> 7, day |-> AlarmDate.day, month |-> AlarmDate.month, dow |-> <<>>,
       enabled |-> TRUE]>>

ForeignPlist ==
    <<[file   |-> <<"com.other.agent", ".", "u1", ".plist">>,
       valid  |-> TRUE,
       label  |-> <<"com.other.agent", ".", "u1">>,
       args   |-> <<(<<"other">>), (<<"--execute-sequence">>), (<<"a">>), (<<"--delete-after">>)>>,
       cal    |-> [islist |-> FALSE, items |-> <<CalDict(Absent, Absent, Absent, 7, 30)>>],
       env    |-> [PCVA_SEQUENCE |-> <<"a">>, PCVA_ONE_TIME |-> "1",
                   PCVA_DAYS |-> <<"daily">>, PCVA_JOB_ID |-> "u1"],
       loaded |-> TRUE]>>

ForeignTask ==
    <<[folder  |-> "root",
       name    |-> <<"a", "_", "0", "7", "_", "3", "0">>,
       author  |-> "Microsoft",
       desc    |-> <<"PyCron", "|", "a", "|", "0", "7", ":", "3", "0">>,
       trig    |-> [type |-> 3, start |-> [year |-> 1, month |-> AlarmDate.month, day |-> AlarmDate.day,
                                           hour |-> 7, minute |-> 30],
                    mask |-> 127],
       args    |-> <<"other.exe">>,
       enabled |-> TRUE]>>

Foreign(ad) ==
    IF ad = "cron" THEN ForeignCron ELSE IF ad = "launchd" THEN ForeignPlist ELSE ForeignTask

\* Whether the adapter takes a record of the native store for one of its own
IsOwned(ad, rec) ==
    IF ad = "cron" THEN CronIsOurJob(rec)
    ELSE IF ad = "launchd" THEN PlistGlob(rec.file)
    ELSE rec.folder = "app" \/ rec.author = AUTHOR

------------------------------------------------------------------------------
(* The state machine *)

Adapters == {"cron", "launchd", "win"}

IdleProc ==
    [pc |-> "idle", args |-> ParseArgs(<<>>), actions |-> <<>>, log |-> <<>>,
     failed |-> FALSE, attempted |-> FALSE, removed |-> <<>>, err |-> FALSE,
     exit |-> -1, src |-> <<>>]

\* A return value (success, message); the message is its kind and the texts it names.
\* call, matched and removed tell which call removed which record.
MsgRet(op, ok, kind, a, b) ==
    [op |-> op, ok |-> ok, msg |-> [kind |-> kind, a |-> a, b |-> b],
     call |-> <<>>, matched |-> 0, removed |-> <<>>]

\* No round trip is under way
NoRoundTrip ==
    [pc |-> "none", t |-> 1, s |-> NoText, days |-> <<>>, one_time |-> FALSE,
     ok |-> FALSE, listed |-> <<>>]

\* The adapter object after __init__: the cron adapter keeps the crontab it read
Constructed(ad, ok, native) ==
    [ok |-> ok, mem |-> IF ad = "cron" /\ ok THEN native ELSE <<>>]

\* Whether __init__ can fail to reach the native facility
CanBeUnavailable(ad) == ad \in {"cron", "win"}

Init ==
    /\ adapter \in Adapters
    /\ store = Foreign(adapter)
    /\ ui = Constructed(adapter, TRUE, store)
    /\ fp = IdleProc
    /\ clock = 1
    /\ fired = 0
    /\ nextId = 1
    /\ rt = NoRoundTrip
    /\ hist = <<>>

\* AlarmScheduler() / the adapter's __init__
Construct ==
    /\ \E ok \in BOOLEAN :
          /\ ok \/ CanBeUnavailable(adapter)
          /\ ui' = Constructed(adapter, ok, store)
    /\ UNCHANGED <<adapter, store, fp, clock, fired, nextId, rt, hist>>

\* What the adapter's calls read: the cron adapter its in-memory crontab
ViewOf(ad, u, native) == IF ad = "cron" THEN u.mem ELSE native

View == ViewOf(adapter, ui, store)

\* The alarms the managing process sets: <<moment, sequence name, days, one_time>>
AddChoices ==
    {<<1, (<<"a">>), (<<>>), TRUE>>,
     <<1, (<<"a", "b">>), (<<>>), TRUE>>,
     <<2, (<<"a">>), (<<>>), TRUE>>,
     <<2, (<<"a">>), (<<>>), FALSE>>,
     <<1, (<<"a">>), (<<"WED", "MON">>), FALSE>>}

\* The datetime of moment i of the alarm date in year y
AlarmTime(y, i) ==
    [year |-> y, month |-> AlarmDate.month, day |-> AlarmDate.day,
     hour |-> Moments[i].h, minute |-> Moments[i].m]

\* An add_alarm that appends its job to the crontab as it is on disk at the write
CronAddAlarm_Merge(u, native, alarm_time, sequence_name, days, one_time, job_id, native_ok) ==
    IF ~u.ok THEN
        [ret |-> MsgRet("add", FALSE, "unavailable", NoText, NoText),
         mem |-> u.mem, native |-> native]
    ELSE
        LET job == CronNewJob(alarm_time, sequence_name, days, one_time, job_id)
        IN IF native_ok
           THEN [ret |-> MsgRet("add", TRUE, "set", StrfHM(alarm_time), NoText),
                 mem |-> Append(u.mem, job), native |-> Append(native, job)]
           ELSE [ret |-> MsgRet("add", FALSE, "error", NoText, NoText),
                 mem |-> Append(u.mem, job), native |-> native]

\* LinuxScheduler.add_alarm: [ret, mem, native], the crontab in memory and on disk
CronAddAlarm(u, native, alarm_time, sequence_name, days, one_time, job_id, native_ok) ==
    IF ~u.ok THEN
        [ret |-> MsgRet("add", FALSE, "unavailable", NoText, NoText),
         mem |-> u.mem, native |-> native]
    ELSE
        LET job == CronNewJob(alarm_time, sequence_name, days, one_time, job_id)
            mem == Append(u.mem, job)
        IN IF native_ok
           THEN [ret |-> MsgRet("add", TRUE, "set", StrfHM(alarm_time), NoText),
                 mem |-> mem, native |-> mem]
           ELSE [ret |-> MsgRet("add", FALSE, "error", NoText, NoText),
                 mem |-> mem, native |-> native]

\* What add_alarm returns as success when the plist is written: `return loaded, msg`
LaunchdAddSuccess(loaded) == loaded

\* An add_alarm that deletes the plist it wrote when launchd does not register it
LaunchdAddAlarm_Rollback(u, native, alarm_time, sequence_name, days, one_time, job_id, written, loaded) ==
    IF ~written THEN
        [ret |-> MsgRet("add", FALSE, "error", NoText, NoText), mem |-> u.mem, native |-> native]
    ELSE IF ~loaded THEN
        [ret |-> MsgRet("add", FALSE, "saved", StrfHM(alarm_time), NoText),
         mem |-> u.mem, native |-> native]
    ELSE
        [ret |-> MsgRet("add", TRUE, "set", StrfHM(alarm_time), NoText),
         mem |-> u.mem,
         native |-> Append(native,
                        LaunchdNewJob(alarm_time, sequence_name, days, one_time, job_id, loaded))]

\* MacOSScheduler.add_alarm: [ret, mem, native]; written is whether the plist could
\* be written, loaded whether launchd then registered it
LaunchdAddAlarm(u, native, alarm_time, sequence_name, days, one_time, job_id, written, loaded) ==
    IF ~written THEN
        [ret |-> MsgRet("add", FALSE, "error", NoText, NoText), mem |-> u.mem, native |-> native]
    ELSE
        [ret |-> MsgRet("add", LaunchdAddSuccess(loaded), IF loaded THEN "set" ELSE "saved",
                        StrfHM(alarm_time), NoText),
         mem |-> u.mem,
         native |-> Append(native,
                        LaunchdNewJob(alarm_time, sequence_name, days, one_time, job_id, loaded))]

\* An add_alarm that reports success before the task is registered
WinAddAlarm_Pending(u, native, alarm_time, sequence_name, days, one_time, native_ok) ==
    IF ~u.ok THEN
        [ret |-> MsgRet("add", FALSE, "unavailable", NoText, NoText),
         mem |-> u.mem, native |-> native]
    ELSE
        [ret |-> MsgRet("add", TRUE, "set", StrfHM(alarm_time), NoText),
         mem |-> u.mem,
         native |-> IF native_ok
                    THEN WinRegister(native, WinNewTask(alarm_time, sequence_name, days, one_time))
                    ELSE native]

\* WindowsScheduler.add_alarm: [ret, mem, native]
WinAddAlarm(u, native, alarm_time, sequence_name, days, one_time, native_ok) ==
    IF ~u.ok THEN
        [ret |-> MsgRet("add", FALSE, "unavailable", NoText, NoText),
         mem |-> u.mem, native |-> native]
    ELSE IF native_ok THEN
        [ret |-> MsgRet("add", TRUE, "set", StrfHM(alarm_time), NoText),
         mem |-> u.mem,
         native |-> WinRegister(native, WinNewTask(alarm_time, sequence_name, days, one_time))]
    ELSE
        [ret |-> MsgRet("add", FALSE, "error", NoText, NoText), mem |-> u.mem, native |-> native]

\* The outcomes of add_alarm(alarm_time, sequence_name, days, one_time) on an adapter
AddOutcomes(ad, u, native, alarm_time, sequence_name, days, one_time, job_id) ==
    IF ad = "cron" THEN
        {CronAddAlarm(u, native, alarm_time, sequence_name, days, one_time, job_id, ok) :
            ok \in BOOLEAN}
    ELSE IF ad = "launchd" THEN
        {LaunchdAddAlarm(u, native, alarm_time, sequence_name, days, one_time, job_id,
                         w[1], w[2]) :
            w \in {<<FALSE, FALSE>>, <<TRUE, FALSE>>, <<TRUE, TRUE>>}}
    ELSE
        {WinAddAlarm(u, native, alarm_time, sequence_name, days, one_time, ok) :
            ok \in BOOLEAN}

\* add_alarm(alarm_time, sequence_name, days, one_time). The cron and launchd
\* adapters mint a uuid per call; nextId also counts the calls of the Windows one.
AddAlarm ==
    /\ nextId <= MaxAdds
    /\ \E c \in AddChoices :
          \E out \in AddOutcomes(adapter, ui, store, AlarmTime(YearOf(clock), c[1]), c[2],
                                 c[3], c[4], UUID(nextId)) :
              /\ ui' = [ui EXCEPT !.mem = out.mem]
              /\ store' = out.native
    /\ nextId' = nextId + 1
    /\ UNCHANGED <<adapter, fp, clock, fired, rt, hist>>

\* A list_alarms() that scans the store whether or not __init__ reached it
ListOf_Unguarded(ad, ok, view) ==
    IF ad = "cron" THEN CronList(view)
    ELSE IF ad = "launchd" THEN LaunchdList(view)
    ELSE WinList(view)

\* list_alarms() of the adapter on what it reads
ListOf(ad, ok, view) ==
    IF ~ok THEN [entries |-> <<>>, from |-> <<>>]
    ELSE IF ad = "cron" THEN CronList(view)
    ELSE IF ad = "launchd" THEN LaunchdList(view)
    ELSE WinList(view)

\* What list_alarms() returns to the managing process in this state
Listing == ListOf(adapter, ui.ok, View)

\* The time strings remove_alarm is called with: H:MM and HH:MM of each moment
TimeStrs ==
    {Str(Moments[i].h) \o <<":">> \o Pad2(Moments[i].m) : i \in 1..NMoments}
      \cup {Pad2(Moments[i].h) \o <<":">> \o Pad2(Moments[i].m) : i \in 1..NMoments}

\* The days strings remove_alarm is called with
DaysStrs == {NoText, <<"Once">>, <<"Daily">>, <<"MON", ",", " ", "WED">>}

\* The positions remove_alarm may remove for these arguments ({} not found, {-1} error)
RemoveAtSet(ad, view, sequence_name, time_str, days_str) ==
    IF ad = "cron" THEN
        LET at == CronRemoveAt(view, sequence_name, time_str, days_str)
        IN IF at = 0 THEN {} ELSE {at}
    ELSE IF ad = "launchd" THEN LaunchdRemoveAt(view, sequence_name, time_str, days_str)
    ELSE LET at == WinRemoveAt(view, sequence_name, time_str)
         IN IF at = 0 THEN {} ELSE {at}

\* How many records of what the adapter reads remove_alarm's matching accepts
MatchCount(ad, view, sequence_name, time_str, days_str) ==
    LET parts == Split(time_str, ":")
        hh == IF Len(parts) = 2 THEN ParseInt(parts[1]) ELSE -1
        mm == IF Len(parts) = 2 THEN ParseInt(parts[2]) ELSE -1
    IN Cardinality({i \in 1..Len(view) :
         IF ad = "cron" THEN CronRemoveMatch(view[i], sequence_name, hh, mm, days_str)
         ELSE IF ad = "launchd" THEN LaunchdRemoveMatch(view[i], sequence_name, hh, mm, days_str)
         ELSE /\ view[i].folder = "app" \/ view[i].author = AUTHOR
              /\ WinRemoveMatch(view[i], sequence_name, time_str, hh, mm)})

\* The return of a remove_alarm that removed a record
RemovedRet(ad, rec, sequence_name, time_str, days_str, matched) ==
    [MsgRet("remove", TRUE, "removed", IF ad = "win" THEN rec.name ELSE sequence_name, NoText)
        EXCEPT !.call = <<sequence_name, time_str, days_str>>,
               !.matched = matched,
               !.removed = <<rec>>]

\* The return of a remove_alarm that found no record to remove
NotFoundRet(sequence_name, time_str) ==
    MsgRet("remove", FALSE, "notfound", sequence_name, time_str)

\* A remove_alarm that reports the removal and leaves the record in place
AfterRemove_Keep(view, at) == view

\* What remove_alarm leaves of what it read once it has taken out position at
AfterRemove(view, at) == RemoveAt(view, at)

\* remove_alarm(sequence_name, time_str, days_str) with the record at position at
\* of hits found: [ret, mem, native]
RemoveFound(ad, u, native, sequence_name, time_str, days_str, at, native_ok) ==
    LET n == MatchCount(ad, ViewOf(ad, u, native), sequence_name, time_str, days_str) IN
    IF ad = "cron" THEN
        \* cron.remove(job) on the in-memory crontab, then cron.write()
        IF native_ok
        THEN [ret |-> RemovedRet(ad, u.mem[at], sequence_name, time_str, days_str, n),
              mem |-> AfterRemove(u.mem, at), native |-> AfterRemove(u.mem, at)]
        ELSE [ret |-> MsgRet("remove", FALSE, "error", NoText, NoText),
              mem |-> AfterRemove(u.mem, at), native |-> native]
    ELSE IF native_ok
        THEN [ret |-> RemovedRet(ad, native[at], sequence_name, time_str, days_str, n),
              mem |-> u.mem, native |-> AfterRemove(native, at)]
        \* the native delete raised: the scan goes on and finds nothing more
        ELSE [ret |-> NotFoundRet(sequence_name, time_str), mem |-> u.mem, native |-> native]

\* The outcomes of remove_alarm(sequence_name, time_str, days_str) on an adapter
RemoveOutcomes(ad, u, native, sequence_name, time_str, days_str) ==
    LET hits == RemoveAtSet(ad, ViewOf(ad, u, native), sequence_name, time_str, days_str)
    IN IF ~u.ok THEN
           {[ret |-> MsgRet("remove", FALSE, "unavailable", NoText, NoText),
             mem |-> u.mem, native |-> native]}
       ELSE IF hits = {-1} THEN
           {[ret |-> MsgRet("remove", FALSE, "error", NoText, NoText),
             mem |-> u.mem, native |-> native]}
       ELSE IF hits = {} THEN
           {[ret |-> NotFoundRet(sequence_name, time_str), mem |-> u.mem, native |-> native]}
       ELSE {RemoveFound(ad, u, native, sequence_name, time_str, days_str, at, ok) :
                at \in hits, ok \in BOOLEAN}

RemoveAlarm ==
    /\ \E sequence_name \in SeqNames, time_str \in TimeStrs, days_str \in DaysStrs :
          \E out \in RemoveOutcomes(adapter, ui, store, sequence_name, time_str, days_str) :
              /\ ui' = [ui EXCEPT !.mem = out.mem]
              /\ store' = out.native
    /\ UNCHANGED <<adapter, fp, clock, fired, nextId, rt, hist>>

------------------------------------------------------------------------------
(* The native scheduler and the process it starts *)

\* Whether the native scheduler fires the record at clock value c
Triggers(ad, rec, c) ==
    LET now == MomentOf(c) IN
    IF ad = "cron" THEN
        /\ rec.enabled
        /\ rec.hour \in {Star, now.h} /\ rec.minute \in {Star, now.m}
        /\ rec.month \in {Star, AlarmDate.month} /\ rec.day \in {Star, AlarmDate.day}
    ELSE IF ad = "launchd" THEN
        /\ rec.valid /\ rec.loaded
        /\ \E k \in 1..Len(rec.cal.items) :
              /\ rec.cal.items[k].Hour = now.h /\ rec.cal.items[k].Minute = now.m
              /\ rec.cal.items[k].Month \in {Absent, AlarmDate.month}
              /\ rec.cal.items[k].Day \in {Absent, AlarmDate.day}
    ELSE
        /\ rec.enabled
        /\ rec.trig.start.hour = now.h /\ rec.trig.start.minute = now.m
        /\ rec.trig.type = 1 => rec.trig.start.year = YearOf(c)

Tick ==
    /\ clock < MaxClock
    /\ clock' = clock + 1
    /\ UNCHANGED <<adapter, store, ui, fp, fired, nextId, rt, hist>>

\* The native scheduler starts main.py with the command line of a record it fires
Fire ==
    /\ fp.pc = "idle"
    /\ fired < clock
    /\ \E i \in 1..Len(store) :
          /\ IsOwned(adapter, store[i])
          /\ Triggers(adapter, store[i], clock)
          /\ ParseArgs(CommandWords(adapter, store[i])).execute_sequence # NoText
          /\ fp' = [IdleProc EXCEPT !.pc = "load",
                                    !.args = ParseArgs(CommandWords(adapter, store[i])),
                                    !.src = <<store[i]>>]
    /\ fired' = clock
    /\ UNCHANGED <<adapter, store, ui, clock, nextId, rt, hist>>

\* A main.py that goes to its delete-after block before it runs the actions
AfterLoad_DeleteFirst(found, acts, delete_after) ==
    IF found # "ok" THEN "done" ELSE AfterActions(delete_after)

\* Where main.py goes once it has looked for the sequence document and loaded it:
\* a missing file ends the process with sys.exit(1), a load error with the outer
\* except's sys.exit(1)
AfterLoad(found, acts, delete_after) ==
    IF found # "ok" THEN "done"
    ELSE IF acts = <<>> THEN AfterActions(delete_after)
    ELSE "exec"

\* main.py 108-131: find and load the sequence document
LoadSequence ==
    /\ fp.pc = "load"
    /\ \E found \in {"ok", "missing", "raises"} :
          LET acts == IF found = "ok" THEN SeqDoc(fp.args.execute_sequence) ELSE <<>>
              next == AfterLoad(found, acts, fp.args.delete_after)
          IN fp' = [fp EXCEPT !.actions = acts,
                              !.pc = next,
                              !.exit = IF found # "ok" THEN 1
                                       ELSE IF next = "done" THEN 0 ELSE -1]
    /\ UNCHANGED <<adapter, store, ui, clock, fired, nextId, rt, hist>>

\* main.py 134-136 with execute_action: the next action of the list runs; a
\* handler that raises or is missing makes execute_action return False
ExecuteAction ==
    /\ fp.pc = "exec"
    /\ \E handled \in BOOLEAN :
          LET k == Len(fp.log) + 1
              next == IF k = Len(fp.actions) THEN AfterActions(fp.args.delete_after)
                      ELSE "exec"
          IN fp' = [fp EXCEPT !.log = Append(fp.log, fp.actions[k]),
                              !.failed = fp.failed \/ ~handled,
                              !.pc = next,
                              !.exit = IF next = "done" THEN 0 ELSE -1]
    /\ UNCHANGED <<adapter, store, ui, clock, fired, nextId, rt, hist>>

\* The positions of the store the self-deletion of this platform may remove
SelfDeleteAt(ad, native, args, now) ==
    IF ad = "cron" THEN
        LET at == CronSelfDeleteAt(native, args) IN IF at = 0 THEN {} ELSE {at}
    ELSE IF ad = "launchd" THEN LaunchdSelfDeleteAt(native, args)
    ELSE LET at == WinSelfDeleteAt(native, args, now) IN IF at = 0 THEN {} ELSE {at}

\* A delete-after block whose native failure ends the process with exit code 1
SelfDelete_ExitOnError ==
    /\ fp.pc = "delete"
    /\ \E native_ok \in BOOLEAN :
          LET hits == SelfDeleteAt(adapter, store, fp.args, MomentOf(clock))
          IN IF native_ok /\ hits # {}
             THEN \E at \in hits :
                    /\ store' = RemoveAt(store, at)
                    /\ fp' = [fp EXCEPT !.pc = "done", !.attempted = TRUE,
                                        !.removed = <<store[at]>>, !.exit = 0]
             ELSE /\ store' = store
                  /\ fp' = [fp EXCEPT !.pc = "done", !.attempted = TRUE,
                                      !.err = (hits # {}),
                                      !.exit = IF hits # {} THEN 1 ELSE 0]
    /\ UNCHANGED <<adapter, ui, clock, fired, nextId, rt, hist>>

\* main.py 140-241: the delete-after block. Every error in it is caught and logged.
SelfDelete ==
    /\ fp.pc = "delete"
    /\ \E native_ok \in BOOLEAN :
          LET hits == SelfDeleteAt(adapter, store, fp.args, MomentOf(clock))
          IN IF native_ok /\ hits # {}
             THEN \E at \in hits :
                    /\ store' = RemoveAt(store, at)
                    /\ fp' = [fp EXCEPT !.pc = "done", !.attempted = TRUE,
                                        !.removed = <<store[at]>>, !.exit = 0]
             ELSE /\ store' = store
                  /\ fp' = [fp EXCEPT !.pc = "done", !.attempted = TRUE,
                                      !.err = (hits # {}), !.exit = 0]
    /\ UNCHANGED <<adapter, ui, clock, fired, nextId, rt, hist>>

\* The process has ended; the native scheduler can start the next one
Reap ==
    /\ fp.pc = "done"
    /\ fp' = IdleProc
    /\ UNCHANGED <<adapter, store, ui, clock, fired, nextId, rt, hist>>

Next ==
    \/ Construct
    \/ AddAlarm
    \/ RemoveAlarm
    \/ Tick
    \/ Fire
    \/ LoadSequence
    \/ ExecuteAction
    \/ SelfDelete
    \/ Reap

Spec == Init /\ [][Next]_vars

------------------------------------------------------------------------------
(* main.py started by hand, or by a record of an older version that carries no
   --job-id and no --scheduled-time *)

\* The command lines of such a start
ShellArgv ==
    {<<(<<"--execute-sequence">>), s>> : s \in SeqNames}
        \cup {<<(<<"--execute-sequence">>), s, (<<"--delete-after">>)>> : s \in SeqNames}

\* main.py 49-56: the process parses the command line it was started with
RunFromShell ==
    /\ fp.pc = "idle"
    /\ \E words \in ShellArgv :
          fp' = [IdleProc EXCEPT !.pc = "load", !.args = ParseArgs(words)]
    /\ UNCHANGED <<adapter, store, ui, clock, fired, nextId, rt, hist>>

NextArgv ==
    \/ AddAlarm
    \/ RunFromShell
    \/ LoadSequence
    \/ ExecuteAction
    \/ SelfDelete
    \/ Reap

SpecArgv == Init /\ [][NextArgv]_vars

------------------------------------------------------------------------------
(* The alarm date of the following year: the clock runs on past the last moment
   of the alarm date, and hist keeps the records the native scheduler fired *)

MaxYearClock == 3

TickYears ==
    /\ clock < MaxYearClock
    /\ clock' = clock + 1
    /\ UNCHANGED <<adapter, store, ui, fp, fired, nextId, rt, hist>>

\* The native scheduler starts main.py with the command line of a record it fires
FireLogged ==
    /\ fp.pc = "idle"
    /\ fired < clock
    /\ \E i \in 1..Len(store) :
          /\ IsOwned(adapter, store[i])
          /\ Triggers(adapter, store[i], clock)
          /\ ParseArgs(CommandWords(adapter, store[i])).execute_sequence # NoText
          /\ fp' = [IdleProc EXCEPT !.pc = "load",
                                    !.args = ParseArgs(CommandWords(adapter, store[i])),
                                    !.src = <<store[i]>>]
          /\ hist' = Append(hist, store[i])
    /\ fired' = clock
    /\ UNCHANGED <<adapter, store, ui, clock, nextId, rt>>

NextYears ==
    \/ AddAlarm
    \/ TickYears
    \/ FireLogged
    \/ LoadSequence
    \/ ExecuteAction
    \/ SelfDelete
    \/ Reap

SpecYears == Init /\ [][NextYears]_vars

------------------------------------------------------------------------------
(* Another program that edits the user's crontab while a LinuxScheduler object
   holds the crontab it read in __init__ *)

\* The entry the other program installs
OtherEntry ==
    [comment |-> <<>>,
     command |-> <<"rotate.sh">>,
     minute |-> 5, hour |-> 22, day |-> Star, month |-> Star, dow |-> <<>>,
     enabled |-> TRUE]

\* crontab -e by the other program: the file on disk gets the entry
OtherProgramWrites ==
    /\ adapter = "cron"
    /\ OtherEntry \notin Range(store)
    /\ store' = Append(store, OtherEntry)
    /\ UNCHANGED <<adapter, ui, fp, clock, fired, nextId, rt, hist>>

InitShared == Init /\ adapter = "cron"

NextShared ==
    \/ Construct
    \/ AddAlarm
    \/ RemoveAlarm
    \/ OtherProgramWrites

SpecShared == InitShared /\ [][NextShared]_vars

------------------------------------------------------------------------------
(* The facade AlarmScheduler of logic/scheduler.py. Here adapter names the native
   facility of the host and ui is the facade object: sched is the adapter its
   platform_scheduler is ("none" for None), ok and mem are that adapter's *)

\* sys.platform of the host that has this native facility
PlatformOf(ad) ==
    IF ad = "cron" THEN <<"linux">> ELSE IF ad = "launchd" THEN <<"darwin">> ELSE <<"win32">>

\* The adapter AlarmScheduler.__init__ instantiates on this platform
PlatformScheduler(platform) ==
    IF StartsWith(platform, <<"linux">>) THEN "cron"
    ELSE IF platform = <<"win32">> THEN "win"
    ELSE "none"

\* The facade object after AlarmScheduler(); ok is whether the adapter's __init__
\* reached the native facility
Facade(platform, ok, native) ==
    LET sched == PlatformScheduler(platform)
        obj == Constructed(sched, sched # "none" /\ ok, native)
    IN [sched |-> sched, ok |-> obj.ok, mem |-> obj.mem]

\* AlarmScheduler.add_alarm
FacadeAddOutcomes(f, native, alarm_time, sequence_name, days, one_time, job_id) ==
    IF f.sched # "none"
    THEN AddOutcomes(f.sched, f, native, alarm_time, sequence_name, days, one_time, job_id)
    ELSE {[ret |-> MsgRet("add", FALSE, "noscheduler", NoText, NoText),
           mem |-> f.mem, native |-> native]}

\* AlarmScheduler.list_alarms
FacadeList(f, native) ==
    IF f.sched # "none" THEN ListOf(f.sched, f.ok, ViewOf(f.sched, f, native))
    ELSE [entries |-> <<>>, from |-> <<>>]

\* AlarmScheduler.remove_alarm
FacadeRemoveOutcomes(f, native, sequence_name, time_str, days_str) ==
    IF f.sched # "none"
    THEN RemoveOutcomes(f.sched, f, native, sequence_name, time_str, days_str)
    ELSE {[ret |-> MsgRet("remove", FALSE, "noscheduler", NoText, NoText),
           mem |-> f.mem, native |-> native]}

\* get_debug_info of an adapter: a str, here its heading and the number of
\* records it has a line for
DebugInfo(ad, ok, view) ==
    IF ad = "cron" THEN
        [type |-> "str", head |-> "Linux Crontab Debug Info",
         rows |-> IF ok THEN Len(view) ELSE 0]
    ELSE IF ad = "launchd" THEN
        [type |-> "str", head |-> "macOS launchd Scheduler",
         rows |-> Len(SelectSeq(view, LAMBDA r : PlistGlob(r.file)))]
    ELSE IF ~ok THEN [type |-> "str", head |-> "Windows Scheduler not initialized.", rows |-> 0]
    ELSE [type |-> "str", head |-> "Windows Scheduler Debug Info",
          rows |-> Len(SelectSeq(view, LAMBDA r : r.folder = "app" \/ r.author = AUTHOR))]

\* AlarmScheduler.get_debug_info
FacadeDebugInfo(f, native) ==
    IF f.sched # "none" THEN DebugInfo(f.sched, f.ok, ViewOf(f.sched, f, native))
    ELSE [type |-> "str", head |-> "Debug info not available for this platform.", rows |-> 0]

InitFacade ==
    /\ adapter \in Adapters
    /\ store = Foreign(adapter)
    /\ ui \in {Facade(PlatformOf(adapter), ok, store) : ok \in BOOLEAN}
    /\ fp = IdleProc
    /\ clock = 1
    /\ fired = 0
    /\ nextId = 1
    /\ rt = NoRoundTrip
    /\ hist = <<>>

\* AlarmScheduler() in a process that starts
FacadeConstruct ==
    /\ \E ok \in BOOLEAN : ui' = Facade(PlatformOf(adapter), ok, store)
    /\ UNCHANGED <<adapter, store, fp, clock, fired, nextId, rt, hist>>

\* The managing process calls add_alarm of its facade
FacadeAddAlarm ==
    /\ nextId <= MaxAdds
    /\ \E c \in AddChoices :
          \E out \in FacadeAddOutcomes(ui, store, AlarmTime(YearOf(clock), c[1]), c[2],
                                       c[3], c[4], UUID(nextId)) :
              /\ ui' = [ui EXCEPT !.mem = out.mem]
              /\ store' = out.native
    /\ nextId' = nextId + 1
    /\ UNCHANGED <<adapter, fp, clock, fired, rt, hist>>

\* The managing process calls remove_alarm of its facade
FacadeRemoveAlarm ==
    /\ \E sequence_name \in SeqNames, time_str \in TimeStrs, days_str \in DaysStrs :
          \E out \in FacadeRemoveOutcomes(ui, store, sequence_name, time_str, days_str) :
              /\ ui' = [ui EXCEPT !.mem = out.mem]
              /\ store' = out.native
    /\ UNCHANGED <<adapter, fp, clock, fired, nextId, rt, hist>>

NextFacade ==
    \/ FacadeConstruct
    \/ FacadeAddAlarm
    \/ FacadeRemoveAlarm

SpecFacade == InitFacade /\ [][NextFacade]_vars

------------------------------------------------------------------------------
(* The round trip add_alarm, then list_alarms, on a store with no owned records *)

\* The days lists add_alarm is called with: every order of every subset of three
\* weekdays, and the seven weekdays
RECURSIVE Orders(_)
Orders(S) ==
    IF S = {} THEN {<<>>}
    ELSE UNION {{<<d>> \o o : o \in Orders(S \ {d})} : d \in S}

RoundTripDays ==
    UNION {Orders(S) : S \in SUBSET {"MON", "WED", "SUN"}} \cup {WeekDays}

\* The calls of the managing process: a one-time alarm has no days selected
RoundTrips ==
    {[NoRoundTrip EXCEPT !.pc = "new", !.t = i, !.s = s, !.days = d, !.one_time = o] :
        i \in 1..NMoments, s \in SeqNames, d \in RoundTripDays, o \in BOOLEAN}

InitRT ==
    /\ adapter \in Adapters
    /\ store = Foreign(adapter)
    /\ ui = Constructed(adapter, TRUE, store)
    /\ fp = IdleProc
    /\ clock = 1
    /\ fired = 0
    /\ nextId = 1
    /\ rt \in {r \in RoundTrips : r.one_time => r.days = <<>>}
    /\ hist = <<>>

\* add_alarm(alarm_time, sequence_name, days, one_time) with the round trip's arguments
RoundTripAdd ==
    /\ rt.pc = "new"
    /\ \E out \in AddOutcomes(adapter, ui, store, AlarmTime(YearOf(clock), rt.t), rt.s,
                              rt.days, rt.one_time, UUID(nextId)) :
          /\ ui' = [ui EXCEPT !.mem = out.mem]
          /\ store' = out.native
          /\ rt' = [rt EXCEPT !.pc = "added", !.ok = out.ret.ok]
    /\ nextId' = nextId + 1
    /\ UNCHANGED <<adapter, fp, clock, fired, hist>>

\* list_alarms() on the same adapter
RoundTripList ==
    /\ rt.pc = "added"
    /\ rt' = [rt EXCEPT !.pc = "listed", !.listed = Listing.entries]
    /\ UNCHANGED <<adapter, store, ui, fp, clock, fired, nextId, hist>>

NextRT ==
    \/ RoundTripAdd
    \/ RoundTripList

SpecRT == InitRT /\ [][NextRT]_vars

------------------------------------------------------------------------------
(* list_alarms on stores that hold owned records it cannot parse *)

\* Owned records of each native store: two that add_alarm writes and two that
\* make the body of list_alarms's loop raise (_parse_task return None)
ListSamples(ad) ==
    LET t1 == AlarmTime(1, 1)
        t2 == AlarmTime(1, 2)
    IN IF ad = "cron" THEN
           {CronNewJob(t1, <<"a">>, <<>>, TRUE, UUID(1)),
            CronNewJob(t2, <<"a", "b">>, <<>>, FALSE, UUID(2)),
            \* no --execute-sequence: args.index raises ValueError
            [CronNewJob(t1, <<"a">>, <<>>, FALSE, UUID(3))
                EXCEPT !.command = <<"main.py", " ", "--check">>],
            \* no closing quotation: shlex.split raises ValueError
            [CronNewJob(t2, <<"a">>, <<>>, TRUE, UUID(4))
                EXCEPT !.command = <<"main.py", " ", "--execute-sequence", " ", "\"", "a">>]}
       ELSE IF ad = "launchd" THEN
           {LaunchdNewJob(t1, <<"a">>, <<>>, TRUE, UUID(1), TRUE),
            LaunchdNewJob(t2, <<"a", "b">>, <<>>, FALSE, UUID(2), TRUE),
            \* not a property list: plistlib.load raises
            [LaunchdNewJob(t1, <<"a">>, <<>>, FALSE, UUID(3), TRUE) EXCEPT !.valid = FALSE],
            \* an empty StartCalendarInterval list: cal[0] raises IndexError
            [LaunchdNewJob(t2, <<"a">>, <<>>, TRUE, UUID(4), TRUE)
                EXCEPT !.cal = [islist |-> TRUE, items |-> <<>>]]}
       ELSE
           {WinNewTask(t1, <<"a">>, <<>>, TRUE),
            WinNewTask(t2, <<"a", "b">>, <<>>, FALSE),
            \* no metadata and a name without "_"
            [WinNewTask(t1, <<"a">>, <<>>, FALSE) EXCEPT !.name = <<"x">>, !.desc = <<>>],
            \* no metadata and a name whose last parts are not numbers: int raises
            [WinNewTask(t2, <<"a">>, <<>>, TRUE)
                EXCEPT !.name = <<"b", "_", "x", "_", "y">>, !.desc = <<"note">>]}

InitList ==
    /\ adapter \in Adapters
    /\ store \in UNION {Orders(S) : S \in SUBSET ListSamples(adapter)}
    /\ ui = Constructed(adapter, TRUE, store)
    /\ fp = IdleProc
    /\ clock = 1
    /\ fired = 0
    /\ nextId = 1
    /\ rt = [NoRoundTrip EXCEPT !.pc = "added"]
    /\ hist = <<>>

NextList == RoundTripList

SpecList == InitList /\ [][NextList]_vars

------------------------------------------------------------------------------
(* Properties of the scheduler adapters and of the fired process *)

\* C1: the records other programs keep in the native store are all still there,
\* unaltered and in their order, whatever add_alarm, remove_alarm and the
\* self-deletion have done, and list_alarms returns an entry for none of them.
C1_ForeignUntouched ==
    /\ SelectSeq(store, LAMBDA r : r \in Range(Foreign(adapter))) = Foreign(adapter)
    /\ \A k \in 1..Len(Listing.from) : Listing.from[k] \notin Range(Foreign(adapter))

\* The self-deletion has removed an owned cron job while owned jobs are listed
\* next to the foreign ones
C1_Witness ==
    /\ adapter = "cron"
    /\ fp.removed # <<>>
    /\ Listing.entries # <<>>
    /\ Len(store) > Len(Foreign(adapter))

\* C2: where the store holds two one-time alarms of one sequence at different
\* times, the self-deletion of a process started with the job id of one of them
\* removes that record and no other (nothing where the native removal fails),
\* and list_alarms still returns the other one.
C2_SelfDeleteById ==
    [][(fp.pc = "delete" /\ fp'.pc = "done") =>
        \A i, j \in 1..Len(store) :
            LET a == ParseArgs(CommandWords(adapter, store[i]))
                b == ParseArgs(CommandWords(adapter, store[j]))
            IN (/\ i # j
                /\ IsOwned(adapter, store[i]) /\ IsOwned(adapter, store[j])
                /\ a.delete_after /\ b.delete_after
                /\ a.execute_sequence = b.execute_sequence
                /\ a.scheduled_time # b.scheduled_time
                /\ a.job_id # NoText
                /\ fp.args.job_id = a.job_id
                /\ fp.args.execute_sequence = a.execute_sequence)
               => /\ store' = IF fp'.err THEN store ELSE RemoveAt(store, i)
                  /\ store[j] \in Range(ListOf(adapter, TRUE, store').from)
    ]_vars

\* A process started with a job id has removed its record; another one-time alarm
\* of the same sequence at another time is in the store and listed
C2_Witness ==
    /\ fp.pc = "done"
    /\ fp.removed # <<>>
    /\ fp.args.job_id # NoText
    /\ ParseArgs(CommandWords(adapter, fp.removed[1])).job_id = fp.args.job_id
    /\ \E j \in 1..Len(store) :
          LET b == ParseArgs(CommandWords(adapter, store[j]))
          IN /\ IsOwned(adapter, store[j])
             /\ b.delete_after
             /\ b.execute_sequence = fp.args.execute_sequence
             /\ b.scheduled_time # fp.args.scheduled_time
             /\ store[j] \in Range(ListOf(adapter, TRUE, store).from)

\* C3: the record a self-deletion run has removed is never the record of a
\* recurring alarm (one whose command line has no --delete-after).
C3_RecurringNeverSelfDeleted ==
    fp.removed # <<>> => ParseArgs(CommandWords(adapter, fp.removed[1])).delete_after

\* C4: the actions executed so far are the first actions of the sequence, in list
\* order, and once the fired process has reached its removal from the native
\* store every action of the sequence has been executed.
C4_ActionsBeforeRemoval ==
    /\ Len(fp.log) <= Len(fp.actions)
    /\ fp.log = SubSeq(fp.actions, 1, Len(fp.log))
    /\ (fp.pc = "delete" \/ fp.attempted \/ fp.removed # <<>>) => fp.log = fp.actions

\* The fired process has executed a sequence of two actions and then removed its record
C4_Witness ==
    /\ fp.removed # <<>>
    /\ Len(fp.actions) = 2
    /\ fp.log = fp.actions

\* C5: a process started with --execute-sequence and --delete-after that has ended
\* has attempted the removal of its job, whether or not the sequence could be
\* loaded and executed.
C5_RemovalAlwaysAttempted ==
    (fp.pc = "done" /\ fp.args.execute_sequence # NoText /\ fp.args.delete_after)
        => fp.attempted

\* C6: once add_alarm has returned success=False on a store with no owned
\* records, the persisted store is what it was and list_alarms on the same
\* adapter returns no entry, as before the call.
C6_FailedAddSetsNothing ==
    (rt.pc = "added" /\ ~rt.ok) =>
        /\ store = Foreign(adapter)
        /\ Listing.entries = <<>>

\* C7: add_alarm(t, s, [], one_time=True) that succeeded on a store with no owned
\* records, then list_alarms: exactly one entry, its time t as H:MM with the hour
\* not zero-padded, its sequence s, its days the list ['Once'].
C7_OneTimeRoundTrip ==
    (rt.pc = "listed" /\ rt.ok /\ rt.one_time /\ rt.days = <<>>) =>
        /\ Len(rt.listed) = 1
        /\ rt.listed[1].time = Str(Moments[rt.t].h) \o <<":">> \o Pad2(Moments[rt.t].m)
        /\ rt.listed[1].sequence = rt.s
        /\ rt.listed[1].days = PyList(<<"Once">>)

\* C8: a recurring alarm added with no days or with all seven weekdays is listed
\* with days equal to the list ['Daily'].
C8_DailyRoundTrip ==
    (/\ rt.pc = "listed" /\ rt.ok /\ ~rt.one_time
     /\ rt.days = <<>> \/ Range(rt.days) = Range(WeekDays)) =>
        /\ Len(rt.listed) = 1
        /\ rt.listed[1].days = PyList(<<"Daily">>)

\* C9: a recurring alarm added with a non-empty strict subset D of the weekdays
\* is listed with days a list of exactly the names of D, and the list is the
\* same for every order add_alarm is given D in.
C9_WeekdaysRoundTrip ==
    (/\ rt.pc = "listed" /\ rt.ok /\ ~rt.one_time
     /\ rt.days # <<>> /\ Range(rt.days) # Range(WeekDays)) =>
        /\ Len(rt.listed) = 1
        /\ rt.listed[1].days.type = "list"
        /\ Len(rt.listed[1].days.v) = Len(rt.days)
        /\ Range(rt.listed[1].days.v) = Range(rt.days)
        /\ \A o \in Orders(Range(rt.days)) :
             \A out \in AddOutcomes(adapter, Constructed(adapter, TRUE, Foreign(adapter)),
                                    Foreign(adapter), AlarmTime(1, rt.t), rt.s, o,
                                    FALSE, UUID(1)) :
                out.ret.ok =>
                    LET after == ListOf(adapter, TRUE,
                                        ViewOf(adapter, [ok |-> TRUE, mem |-> out.mem],
                                               out.native)).entries
                    IN after # <<>> /\ after[1].days = rt.listed[1].days

\* C10: for every remove_alarm call that returns success in this state and that
\* exactly one record matched: list_alarms no longer returns the removed record,
\* and the same call made again returns (False, not found, naming the sequence
\* and the time) and leaves the adapter and the native store as they are.
C10_RemoveTwice ==
    \A sequence_name \in SeqNames, time_str \in TimeStrs, days_str \in DaysStrs :
        \A out \in RemoveOutcomes(adapter, ui, store, sequence_name, time_str, days_str) :
            (out.ret.ok /\ out.ret.matched = 1) =>
                LET after == [ui EXCEPT !.mem = out.mem]
                    again == RemoveOutcomes(adapter, after, out.native,
                                            sequence_name, time_str, days_str)
                IN /\ out.ret.removed[1] \notin
                        Range(ListOf(adapter, TRUE, ViewOf(adapter, after, out.native)).from)
                   /\ \A r \in again :
                        /\ ~r.ret.ok
                        /\ r.ret.msg = [kind |-> "notfound", a |-> sequence_name, b |-> time_str]
                        /\ r.mem = out.mem
                        /\ r.native = out.native
                   /\ again # {}

\* Two alarms are listed, and one remove_alarm call matches one of them alone
\* and removes it from the store
C10_Witness ==
    /\ Len(Listing.entries) >= 2
    /\ \E sequence_name \in SeqNames, time_str \in TimeStrs, days_str \in DaysStrs :
          \E out \in RemoveOutcomes(adapter, ui, store, sequence_name, time_str, days_str) :
              /\ out.ret.ok
              /\ out.ret.matched = 1
              /\ out.ret.removed[1] \in Range(Listing.from)
              /\ Len(out.native) = Len(store) - 1

\* C11: list_alarms of a newly constructed adapter returns one entry per owned
\* record of the native store, in scan order, none left out and none twice, and
\* no entry for a foreign record: N entries for N owned and M foreign records.
C11_ListsEveryOwnedRecord ==
    LET owned == SelectSeq(store, LAMBDA r : r \notin Range(Foreign(adapter)))
        listed == ListOf(adapter, TRUE, store)
    IN /\ listed.from = owned
       /\ Len(listed.entries) = Len(owned)

\* Two owned records stand in the store next to the foreign ones
C11_Witness ==
    /\ Len(store) = Len(Foreign(adapter)) + 2
    /\ Len(Foreign(adapter)) >= 1
    /\ Len(ListOf(adapter, TRUE, store).entries) = 2

\* C12: every remove_alarm call leaves what the adapter read without exactly one
\* record or as it was, and at most one record of the native store is missing
\* afterwards; every self-deletion step takes at most one record out of the
\* store. On the cron and Task Scheduler adapters the record taken is the first
\* in scan order that the call's matching accepts.
C12_AtMostOneRemoved ==
    /\ [](\A sequence_name \in SeqNames, time_str \in TimeStrs, days_str \in DaysStrs :
            \A out \in RemoveOutcomes(adapter, ui, store, sequence_name, time_str, days_str) :
                LET parts == Split(time_str, ":")
                    hh == ParseInt(parts[1])
                    mm == ParseInt(parts[2])
                    Hit(r) == IF adapter = "cron"
                              THEN CronRemoveMatch(r, sequence_name, hh, mm, days_str)
                              ELSE IF adapter = "launchd"
                              THEN LaunchdRemoveMatch(r, sequence_name, hh, mm, days_str)
                              ELSE /\ r.folder = "app" \/ r.author = AUTHOR
                                   /\ WinRemoveMatch(r, sequence_name, time_str, hh, mm)
                    after == ViewOf(adapter, [ui EXCEPT !.mem = out.mem], out.native)
                IN /\ Len(SelectSeq(store, LAMBDA r : r \notin Range(out.native))) <= 1
                   /\ after = View
                        \/ \E at \in 1..Len(View) :
                              /\ after = RemoveAt(View, at)
                              /\ Hit(View[at])
                              /\ adapter # "launchd" =>
                                    \A j \in 1..(at - 1) : ~Hit(View[j])
                   /\ out.ret.ok => Len(after) = Len(View) - 1)
    /\ [][(fp.pc = "delete" /\ fp'.pc = "done") =>
            \/ store' = store /\ fp'.removed = <<>>
            \/ \E at \in 1..Len(store) :
                  /\ store' = RemoveAt(store, at)
                  /\ fp'.removed = <<store[at]>>
                  /\ adapter = "cron" =>
                        \A j \in 1..(at - 1) :
                            IF CronDeleteById(<<store[at]>>, fp.args) # 0
                            THEN CronDeleteById(<<store[j]>>, fp.args) = 0
                            ELSE CronDeleteByTime(<<store[j]>>, fp.args) = 0
                  /\ adapter = "win" =>
                        \A j \in 1..(at - 1) :
                            WinSelfDeleteAt(<<store[j]>>, fp.args, MomentOf(clock)) = 0
      ]_vars

\* C13: a record a self-deletion run has removed is the one its --job-id names,
\* or one whose native trigger is at its --scheduled-time, unless the run was
\* given neither: a run that was given a job id or a scheduled time that
\* identifies no record removes nothing.
C13_SoftMatchOnlyWithoutIds ==
    fp.removed # <<>> =>
        LET r == fp.removed[1]
            parts == Split(fp.args.scheduled_time, ":")
            hh == IF Len(parts) = 2 THEN ParseInt(parts[1]) ELSE -1
            mm == IF Len(parts) = 2 THEN ParseInt(parts[2]) ELSE -1
            byId == /\ fp.args.job_id # NoText
                    /\ IF adapter = "cron" THEN r.comment = <<MARKER, ":">> \o fp.args.job_id
                       ELSE IF adapter = "launchd"
                       THEN r.file = <<LABEL_PREFIX, ".">> \o fp.args.job_id \o <<".plist">>
                       ELSE FALSE
            byTime == /\ fp.args.scheduled_time # NoText
                      /\ IF adapter = "cron" THEN r.hour = hh /\ r.minute = mm
                         ELSE IF adapter = "launchd"
                         THEN r.cal.items[1].Hour = hh /\ r.cal.items[1].Minute = mm
                         ELSE r.trig.start.hour = hh /\ r.trig.start.minute = mm
        IN \/ byId
           \/ byTime
           \/ fp.args.job_id = NoText /\ fp.args.scheduled_time = NoText

\* C14: where the store holds two one-time alarms of one sequence at the same
\* time, the self-deletion of a process started with --delete-after and with
\* neither --job-id nor --scheduled-time removes exactly one of the two (nothing
\* where the native removal itself fails) and list_alarms still returns the other.
C14_SoftMatchRemovesOneOfTwo ==
    [][(/\ fp.pc = "delete" /\ fp'.pc = "done"
        /\ fp.args.delete_after
        /\ fp.args.job_id = NoText /\ fp.args.scheduled_time = NoText) =>
        \A i, j \in 1..Len(store) :
            LET a == ParseArgs(CommandWords(adapter, store[i]))
                b == ParseArgs(CommandWords(adapter, store[j]))
                twins == {k \in 1..Len(store) :
                            /\ IsOwned(adapter, store[k])
                            /\ ParseArgs(CommandWords(adapter, store[k])).delete_after
                            /\ ParseArgs(CommandWords(adapter, store[k])).execute_sequence
                                   = fp.args.execute_sequence}
            IN (/\ i # j
                /\ twins = {i, j}
                /\ \E c \in 1..NMoments :
                      Triggers(adapter, store[i], c) /\ Triggers(adapter, store[j], c))
               => \/ fp'.err /\ store' = store
                  \/ /\ store' = RemoveAt(store, i)
                     /\ store[j] \in Range(ListOf(adapter, TRUE, store').from)
                  \/ /\ store' = RemoveAt(store, j)
                     /\ store[i] \in Range(ListOf(adapter, TRUE, store').from)
    ]_vars

\* C15: every one-time record that add_alarm has written has a command line with
\* --delete-after, with --job-id followed by the id the record carries natively,
\* and with --scheduled-time followed by HH:MM, the hour and minute of the
\* record's native trigger.
C15_OneTimeCommandLine ==
    \A i \in 1..Len(store) :
        LET r == store[i]
            a == ParseArgs(CommandWords(adapter, r))
            parts == Split(a.scheduled_time, ":")
            one_time == IF adapter = "cron" THEN r.day # Star
                        ELSE IF adapter = "launchd" THEN r.env.PCVA_ONE_TIME = "1"
                        ELSE r.trig.type = 1
            id == IF adapter = "cron" THEN SubSeq(r.comment, 3, Len(r.comment))
                  ELSE IF adapter = "launchd" THEN <<r.env.PCVA_JOB_ID>>
                  ELSE NoText
            hour == IF adapter = "cron" THEN r.hour
                    ELSE IF adapter = "launchd" THEN r.cal.items[1].Hour
                    ELSE r.trig.start.hour
            minute == IF adapter = "cron" THEN r.minute
                      ELSE IF adapter = "launchd" THEN r.cal.items[1].Minute
                      ELSE r.trig.start.minute
        IN (r \notin Range(Foreign(adapter)) /\ one_time) =>
              /\ a.delete_after
              /\ a.job_id # NoText /\ a.job_id = id
              /\ Len(parts) = 2
              /\ Len(parts[1]) = 2 /\ Len(parts[2]) = 2
              /\ ParseInt(parts[1]) = hour /\ ParseInt(parts[2]) = minute

\* C16: on each host the facade holds the adapter of that host's native facility
\* (cron on Linux, launchd on macOS, Task Scheduler on Windows), and its
\* add_alarm, list_alarms, remove_alarm and get_debug_info are that adapter's.
C16_FacadeForwards ==
    /\ ui.sched = adapter
    /\ \A c \in AddChoices :
          FacadeAddOutcomes(ui, store, AlarmTime(YearOf(clock), c[1]), c[2], c[3], c[4],
                            UUID(nextId))
            = AddOutcomes(adapter, ui, store, AlarmTime(YearOf(clock), c[1]), c[2], c[3],
                          c[4], UUID(nextId))
    /\ FacadeList(ui, store) = ListOf(adapter, ui.ok, ViewOf(adapter, ui, store))
    /\ \A sequence_name \in SeqNames, time_str \in TimeStrs, days_str \in DaysStrs :
          FacadeRemoveOutcomes(ui, store, sequence_name, time_str, days_str)
            = RemoveOutcomes(adapter, ui, store, sequence_name, time_str, days_str)
    /\ FacadeDebugInfo(ui, store) = DebugInfo(adapter, ui.ok, ViewOf(adapter, ui, store))

\* C17: with a facade whose adapter did not reach the native facility, or that has
\* no adapter, every add_alarm and every remove_alarm returns failure and leaves
\* the native store as it is, list_alarms returns the empty list and
\* get_debug_info returns a string.
C17_UnavailableIsInert ==
    ~ui.ok =>
        /\ \A c \in AddChoices :
              \A out \in FacadeAddOutcomes(ui, store, AlarmTime(YearOf(clock), c[1]), c[2],
                                           c[3], c[4], UUID(nextId)) :
                  ~out.ret.ok /\ out.ret.msg.kind # "" /\ out.native = store
        /\ \A sequence_name \in SeqNames, time_str \in TimeStrs, days_str \in DaysStrs :
              \A out \in FacadeRemoveOutcomes(ui, store, sequence_name, time_str, days_str) :
                  ~out.ret.ok /\ out.ret.msg.kind # "" /\ out.native = store
        /\ FacadeList(ui, store).entries = <<>>
        /\ FacadeDebugInfo(ui, store).type = "str"

\* A facade whose adapter did not reach the native facility, over a store that
\* holds an alarm an earlier facade has added
C17_Witness ==
    /\ ~ui.ok
    /\ ui.sched # "none"
    /\ Len(store) > Len(Foreign(adapter))
    /\ nextId <= MaxAdds

C19_UnlockedWholeFileWrites ==
    [][(adapter = "cron" /\ store' # store) =>
          IF fp' = fp
          THEN /\ store' = ui'.mem
               /\ \/ \E at \in 1..Len(ui.mem) : ui'.mem = RemoveAt(ui.mem, at)
                  \/ Len(ui'.mem) = Len(ui.mem) + 1 /\ SubSeq(ui'.mem, 1, Len(ui.mem)) = ui.mem
          ELSE /\ fp.pc = "delete"
               /\ \E at \in 1..Len(store) : store' = RemoveAt(store, at)
    ]_vars

\* The fired process has removed its job from the crontab with success and the
\* job is in the crontab again, written back by the managing process's add_alarm
C19_Witness ==
    /\ adapter = "cron"
    /\ fp.pc = "done"
    /\ fp.removed # <<>>
    /\ ~fp.err
    /\ fp.removed[1] \in Range(store)
    /\ fp.removed[1] \in Range(ui.mem)
    /\ Len(store) = Len(Foreign(adapter)) + 2

\* C20: for every add_alarm that returns success in this state, through the
\* facade or on the host's adapter itself, the record it made is in the native
\* store it leaves, and list_alarms of a facade (an adapter) constructed after it
\* that reaches the native facility returns an entry for that record.
C20_SuccessMeansPersisted ==
    \A c \in AddChoices :
        LET at == AlarmTime(YearOf(clock), c[1])
            id == UUID(nextId)
            new == IF adapter = "cron" THEN CronNewJob(at, c[2], c[3], c[4], id)
                   ELSE IF adapter = "launchd" THEN LaunchdNewJob(at, c[2], c[3], c[4], id, TRUE)
                   ELSE WinNewTask(at, c[2], c[3], c[4])
            obj == IF adapter = "cron" THEN [ok |-> ui.ok, mem |-> ui.mem]
                   ELSE Constructed(adapter, adapter = "launchd" \/ ui.ok, store)
        IN /\ \A out \in FacadeAddOutcomes(ui, store, at, c[2], c[3], c[4], id) :
                 out.ret.ok =>
                    /\ new \in Range(out.native)
                    /\ new \in Range(FacadeList(Facade(PlatformOf(adapter), TRUE, out.native),
                                                out.native).from)
           /\ \A out \in AddOutcomes(adapter, obj, store, at, c[2], c[3], c[4], id) :
                 out.ret.ok =>
                    /\ new \in Range(out.native)
                    /\ new \in Range(ListOf(adapter, TRUE, out.native).from)

\* A facade that reached the native facility has added an alarm with success, and
\* a facade constructed now lists it
C20_Witness ==
    /\ ui.ok
    /\ nextId = 2
    /\ Len(store) = Len(Foreign(adapter)) + 1
    /\ Len(FacadeList(Facade(PlatformOf(adapter), TRUE, store), store).entries) = 1

\* C21: a one-time record that the native scheduler has fired is not fired a
\* second time, in the year of its date or in a later year.
C21_OneTimeFiresOnce ==
    \A i, j \in 1..Len(hist) :
        LET r == hist[i]
            one_time == IF adapter = "cron" THEN r.day # Star
                        ELSE IF adapter = "launchd" THEN r.env.PCVA_ONE_TIME = "1"
                        ELSE r.trig.type = 1
        IN (i < j /\ one_time) => hist[j] # r

\* C22: a fired process that has ended has exit code 0 where it loaded the
\* sequence document and went through all its actions, whether actions failed
\* and whether its removal succeeded, matched nothing or raised; it has exit
\* code 1 where the document was missing or loading it raised, and then it ran
\* no action. A process that has not ended has no exit code.
C22_ExitCode ==
    /\ fp.pc \notin {"idle", "done"} => fp.exit = -1
    /\ fp.pc = "done" =>
          IF fp.actions # <<>>
          THEN fp.exit = 0 /\ fp.log = fp.actions
          ELSE fp.exit = 1 /\ fp.log = <<>> /\ ~fp.attempted

\* A process has ended with exit code 0 although an action failed and the native
\* removal of its job raised
C22_Witness ==
    /\ fp.pc = "done"
    /\ fp.exit = 0
    /\ fp.failed
    /\ fp.err
    /\ fp.removed = <<>>

\* C23: list_alarms returns the entries of the owned records of the store that
\* can be parsed, one each and in scan order, wherever the owned records that
\* cannot be parsed sit among them.
C23_ListSkipsUnparseable ==
    rt.pc = "listed" =>
        LET ParseOf(r) == IF adapter = "cron" THEN CronParseJob(r)
                          ELSE IF adapter = "launchd" THEN LaunchdParseJob(r)
                          ELSE WinParseTask(r)
            good == SelectSeq(store, LAMBDA r : IsOwned(adapter, r) /\ ParseOf(r).ok)
        IN /\ Len(rt.listed) = Len(good)
           /\ \A k \in 1..Len(good) : rt.listed[k] = ParseOf(good[k]).entry
           /\ Listing.from = good

\* list_alarms has returned two entries for a store of four owned records whose
\* first and third cannot be parsed
C23_Witness ==
    /\ rt.pc = "listed"
    /\ Len(store) = 4
    /\ Len(rt.listed) = 2
    /\ Listing.from = <<store[2], store[4]>>

\* C24: every add_alarm that returns success in this state leaves the native
\* store with all the records it held, unchanged and in their order, and one
\* record more, also where the store holds an alarm of the same sequence and
\* time; list_alarms of a new adapter then returns one entry more.
C24_AddAddsOneRecord ==
    \A c \in AddChoices :
        \A out \in AddOutcomes(adapter, ui, store, AlarmTime(YearOf(clock), c[1]), c[2],
                               c[3], c[4], UUID(nextId)) :
            out.ret.ok =>
                /\ Len(out.native) = Len(store) + 1
                /\ SubSeq(out.native, 1, Len(store)) = store
                /\ Len(ListOf(adapter, TRUE, out.native).entries)
                      = Len(ListOf(adapter, TRUE, store).entries) + 1

\* C25: the record a self-deletion run has removed is the record whose trigger
\* started that process, and no other.
C25_RemovesOnlyItsOwnRecord ==
    fp.removed # <<>> => fp.removed = fp.src

\* C26: where the process of a fired one-time record that add_alarm wrote has run
\* its sequence to the end and reaches its delete-after block, the record is the
\* only owned record of the store (so no other process has left a change in it)
\* and the native removal does not fail, the record is absent from the store
\* once the block has ended, whatever the clock has advanced to since the firing.
C26_FiredOneTimeIsRemoved ==
    [][(/\ fp.pc = "delete" /\ fp'.pc = "done"
        /\ ~fp'.err
        /\ fp.log = fp.actions
        /\ store = Foreign(adapter) \o fp.src
        /\ IF adapter = "cron" THEN fp.src[1].day # Star
           ELSE IF adapter = "launchd" THEN fp.src[1].env.PCVA_ONE_TIME = "1"
           ELSE fp.src[1].trig.type = 1)
       => fp.src[1] \notin Range(store')
    ]_vars

\* C27: for every entry e that list_alarms returns in this state, the call the
\* managing process makes to delete it, remove_alarm(e.sequence, e.time, the
\* days of e joined with ", "), succeeds where the native removal does not
\* fail, and the record it removes is one that list_alarms returns e for.
C27_ListedIsRemovable ==
    \A k \in 1..Len(Listing.entries) :
        LET e == Listing.entries[k]
            days_str == IF e.days.type = "list"
                        THEN Join([i \in 1..Len(e.days.v) |-> <<e.days.v[i]>>], <<",", " ">>)
                        ELSE e.days.v
            outs == RemoveOutcomes(adapter, ui, store, e.sequence, e.time, days_str)
            same == {Listing.from[j] : j \in {i \in 1..Len(Listing.entries) :
                                                Listing.entries[i] = e}}
        IN /\ \E out \in outs : out.ret.ok
           /\ \A out \in outs : out.ret.ok => out.ret.removed[1] \in same

\* C28: an entry that another program has put into the crontab after the cron
\* adapter read it is still in the crontab, unchanged, after every write of the
\* adapter.
C28_ForeignEditSurvives ==
    [][(OtherEntry \in Range(store)) => (OtherEntry \in Range(store'))
    ]_vars

\* C29: on the cron adapter the job that a successful remove_alarm(sequence_name,
\* time, days) removes, and the job that a self-deletion has removed, has
\* sequence_name (the process's --execute-sequence) as the argument of its own
\* --execute-sequence.
C29_CronMatchesWholeSequenceName ==
    adapter = "cron" =>
        /\ \A sequence_name \in SeqNames, time_str \in TimeStrs, days_str \in DaysStrs :
              \A out \in RemoveOutcomes(adapter, ui, store, sequence_name, time_str, days_str) :
                  out.ret.ok =>
                      ParseArgs(CommandWords(adapter, out.ret.removed[1])).execute_sequence
                          = sequence_name
        /\ fp.removed # <<>> =>
              ParseArgs(CommandWords(adapter, fp.removed[1])).execute_sequence
                  = fp.args.execute_sequence

\* C30: in the crontab every recurring job that add_alarm wrote has the bare
\* marker as its comment, every one-time job the marker, ":" and the job id
\* that follows --job-id in its command, and no two jobs have the same
\* marker:job_id comment.
C30_CronMarkers ==
    adapter = "cron" =>
        /\ \A i \in 1..Len(store) :
              LET job == store[i]
                  a == ParseArgs(CommandWords(adapter, job))
              IN job \notin Range(Foreign(adapter)) =>
                    IF job.day # Star
                    THEN /\ Len(job.comment) = 3
                         /\ job.comment[1] = MARKER /\ job.comment[2] = ":"
                         /\ a.job_id = <<job.comment[3]>>
                         /\ a.delete_after
                    ELSE job.comment = <<MARKER>> /\ a.job_id = NoText /\ ~a.delete_after
        /\ \A i, j \in 1..Len(store) :
              (i # j /\ StartsWith(store[i].comment, <<MARKER, ":">>))
                  => store[i].comment # store[j].comment

\* The crontab holds two one-time jobs of one sequence at one time, and a
\* self-deletion with the job id of one of them has something to remove
C30_Witness ==
    /\ adapter = "cron"
    /\ \E i, j \in 1..Len(store) :
          /\ i # j
          /\ store[i] \notin Range(Foreign(adapter)) /\ store[j] \notin Range(Foreign(adapter))
          /\ store[i].day # Star /\ store[j].day # Star
          /\ store[i].hour = store[j].hour /\ store[i].minute = store[j].minute
          /\ ParseArgs(CommandWords(adapter, store[i])).execute_sequence
                = ParseArgs(CommandWords(adapter, store[j])).execute_sequence
          /\ CronDeleteById(store, ParseArgs(CommandWords(adapter, store[j]))) = j

==============================================================================
